---- MODULE Spec2Model ----
(***************************************************************************)
(* Vanilla policy gradient trainer of src/solution.py: the trajectory      *)
(* buffer VPGBuffer (store, end_traj, get), the actor-critic step and the  *)
(* epoch loop Agent.train.                                                 *)
(*                                                                         *)
(* Numbers.  Rewards, value estimates, observations and log-probabilities  *)
(* are small integers.  The advantage and return arrays hold exact         *)
(* rationals <<n, d>> (d > 0, lowest terms), so discounting by gamma and   *)
(* gamma*lam is computed, not approximated.  The normalisation of get      *)
(* divides by a standard deviation, a square root: a normalised entry is   *)
(* kept as the pair (c, v) that stands for c / sqrt(v).                    *)
(***************************************************************************)
EXTENDS Integers, Sequences, FiniteSets, TLC

VARIABLES
    \* ---- VPGBuffer fields (src/solution.py:126-141)
    max_size, gamma, lam, ptr, path_start_idx,
    obs_buf, act_buf, rew_buf, val_buf, logp_buf, phi_buf, ret_buf,
    \* ---- the batch last returned by get, held by the caller
    data,
    \* ---- the last buffer call, whether it raised, and the number of
    \*      successful store calls since the last successful get
    lastCall, raised, stores_since_get,
    \* ---- the bootstrap value the last call was given (0 unless it was end_traj)
    last_val_given,
    \* ---- Agent.train: position, loop counters and locals
    pc, epoch, t, state, ep_ret, ep_len, ep_returns,
    terminal, timeout, epoch_ended, last_step, boot,
    \* ---- the networks' parameters (versions) and the environment
    pi_params, v_params, env_terminated, env_steps,
    \* ---- the buffer calls and updates of the current epoch, in order
    events,
    \* ---- the networks' gradient accumulators (.grad): the parameter versions
    \*      whose loss gradients are summed in them; the round of v_update's loop
    pi_grad, v_grad, v_round,
    \* ---- Agent.get_action: the calls made so far and the last action returned
    evals, action

bufVars == <<max_size, gamma, lam, ptr, path_start_idx,
             obs_buf, act_buf, rew_buf, val_buf, logp_buf, phi_buf, ret_buf>>
trainVars == <<pc, epoch, t, state, ep_ret, ep_len, ep_returns,
               terminal, timeout, epoch_ended, last_step, boot,
               pi_params, v_params, env_terminated, env_steps, events,
               pi_grad, v_grad, v_round, evals, action>>
callVars == <<lastCall, raised, stores_since_get, last_val_given>>
vars == <<bufVars, data, callVars, trainVars>>

----------------------------------------------------------------------------
(* Bounds of the model *)

\* largest buffer capacity explored by the buffer specification
MaxSize == 2

\* rounds of v_update's loop, and the get_action calls explored after training
v_rounds == 2
MaxEvals == 2

\* Agent.train's settings, scaled down: steps per epoch, epochs, longest episode
steps_per_epoch == 3
epochs == 2
max_ep_len == 2

\* observations and actions of the environment
Obs == {1, 2}
Acts == {0, 1}

\* the transitions store is called with, and the bootstrap values of end_traj
Transitions ==
    { [obs |-> 1, act |-> 0, rew |-> 0, val |-> 0, logp |-> -1],
      [obs |-> 2, act |-> 1, rew |-> 1, val |-> 0, logp |-> -2],
      [obs |-> 1, act |-> 1, rew |-> 1, val |-> 1, logp |-> -1] }
Vals == {0, 1}

----------------------------------------------------------------------------
(* Exact rationals *)

Abs(x) == IF x < 0 THEN -x ELSE x

RECURSIVE GCD(_, _)
GCD(a, b) == IF b = 0 THEN a ELSE GCD(b, a % b)

Rat(n, d) == LET g == GCD(Abs(n), d) IN <<n \div g, d \div g>>
RInt(k) == <<k, 1>>
RAdd(p, q) == Rat(p[1] * q[2] + q[1] * p[2], p[2] * q[2])
RSub(p, q) == Rat(p[1] * q[2] - q[1] * p[2], p[2] * q[2])
RMul(p, q) == Rat(p[1] * q[1], p[2] * q[2])
RDivInt(p, k) == Rat(p[1], p[2] * k)

RECURSIVE RSum(_)
RSum(s) == IF Len(s) = 0 THEN RInt(0) ELSE RAdd(s[1], RSum(Tail(s)))

\* discount factors explored: <<gamma, lam>>
GammaLams == { <<RInt(1), RInt(1)>>, <<Rat(1, 2), Rat(1, 2)>> }

----------------------------------------------------------------------------
(* Advantage entries.  "num": the rational c.  "norm": c / sqrt(v), an     *)
(* entry get has normalised.  "nan": 0/0.  "fin": a finite real the model  *)
(* does not evaluate (see Normalised).                                     *)

Num(c) == [k |-> "num", c |-> c, v |-> RInt(1)]
NormVal(c, v) == [k |-> "norm", c |-> c, v |-> v]
NaN == [k |-> "nan", c |-> RInt(0), v |-> RInt(1)]
Fin == [k |-> "fin", c |-> RInt(0), v |-> RInt(1)]

Zeros(n, z) == [i \in 1..n |-> z]

----------------------------------------------------------------------------
(* discount_cumsum: lfilter([1], [1, -discount], x[::-1])[::-1], that is   *)
(* y[i] = x[i] + discount * y[i+1], y[last] = x[last]; empty for empty x.  *)

RECURSIVE discount_cumsum(_, _)
discount_cumsum(x, discount) ==
    IF Len(x) = 0 THEN <<>>
    ELSE LET rest == discount_cumsum(Tail(x), discount)
         IN  IF Len(rest) = 0 THEN <<x[1]>>
             ELSE <<RAdd(x[1], RMul(discount, rest[1]))>> \o rest

----------------------------------------------------------------------------
(* VPGBuffer *)

\* VPGBuffer.__init__: zero arrays of length size, both cursors at 0
BufferInit(size, g, l) ==
    /\ max_size = size
    /\ gamma = g
    /\ lam = l
    /\ ptr = 0
    /\ path_start_idx = 0
    /\ obs_buf = Zeros(size, 0)
    /\ act_buf = Zeros(size, 0)
    /\ rew_buf = Zeros(size, 0)
    /\ val_buf = Zeros(size, 0)
    /\ logp_buf = Zeros(size, 0)
    /\ phi_buf = Zeros(size, Num(RInt(0)))
    /\ ret_buf = Zeros(size, RInt(0))

\* faulty variant of store_assert: <= for <
store_assert_le == ptr <= max_size

\* store's assertion: the buffer has room
store_assert == ptr < max_size

\* faulty variant of store_ptr: the cursor advanced by two
store_ptr_skip == ptr + 2

\* the cursor after store
store_ptr == ptr + 1

\* VPGBuffer.store: write one transition at ptr (index ptr+1 here: sequences
\* are 1-based), advance ptr; an AssertionError before any write otherwise
store(obs, act, rew, val, logp) ==
    /\ lastCall' = "store"
    /\ IF store_assert
       THEN /\ obs_buf' = [obs_buf EXCEPT ![ptr + 1] = obs]
            /\ act_buf' = [act_buf EXCEPT ![ptr + 1] = act]
            /\ rew_buf' = [rew_buf EXCEPT ![ptr + 1] = rew]
            /\ val_buf' = [val_buf EXCEPT ![ptr + 1] = val]
            /\ logp_buf' = [logp_buf EXCEPT ![ptr + 1] = logp]
            /\ ptr' = store_ptr
            /\ raised' = FALSE
            /\ stores_since_get' = stores_since_get + 1
       ELSE /\ UNCHANGED <<obs_buf, act_buf, rew_buf, val_buf, logp_buf, ptr>>
            /\ raised' = TRUE
            /\ UNCHANGED stores_since_get
    /\ last_val_given' = 0
    /\ UNCHANGED <<max_size, gamma, lam, path_start_idx, phi_buf, ret_buf>>

\* path_slice = slice(path_start_idx, ptr), as 1-based indices
path_slice == (path_start_idx + 1)..ptr

\* buf[path_slice] followed by last_val, as rationals
AppendLast(buf, last_val) ==
    [i \in 1..(ptr - path_start_idx + 1) |->
        IF i <= ptr - path_start_idx THEN RInt(buf[path_start_idx + i])
        ELSE RInt(last_val)]

\* faulty variant of deltas: the next value not discounted
deltas_undiscounted(rews, vals) ==
    [i \in 1..(Len(rews) - 1) |-> RSub(RAdd(rews[i], vals[i + 1]), vals[i])]

\* deltas = rews[:-1] + gamma * vals[1:] - vals[:-1]
deltas(rews, vals) ==
    [i \in 1..(Len(rews) - 1) |->
        RSub(RAdd(rews[i], RMul(gamma, vals[i + 1])), vals[i])]

\* rews[:-1]
ButLast(s) == SubSeq(s, 1, Len(s) - 1)

\* the advantages end_traj computes for the slice
slice_phi(last_val) ==
    discount_cumsum(deltas(AppendLast(rew_buf, last_val), AppendLast(val_buf, last_val)),
                    RMul(gamma, lam))

\* faulty variant of slice_ret: the bootstrap value discounted into the
\* returns, discount_cumsum(rews, gamma)[:-1]
slice_ret_with_bootstrap(last_val) ==
    ButLast(discount_cumsum(AppendLast(rew_buf, last_val), gamma))

\* the returns-to-go end_traj computes for the slice
slice_ret(last_val) ==
    discount_cumsum(ButLast(AppendLast(rew_buf, last_val)), gamma)

\* faulty variant of end_traj_start: the start left where it was
end_traj_start_kept == path_start_idx

\* the trajectory start after end_traj
end_traj_start == ptr

\* VPGBuffer.end_traj: GAE advantages and returns-to-go of the open slice,
\* written at the slice's indices; the slice is closed.  On an empty slice
\* both assignments are of empty arrays to an empty slice: nothing changes.
end_traj(last_val) ==
    /\ lastCall' = "end_traj"
    /\ last_val_given' = last_val
    /\ raised' = FALSE
    /\ UNCHANGED stores_since_get
    /\ phi_buf' = [i \in 1..max_size |->
                     IF i \in path_slice
                     THEN Num(slice_phi(last_val)[i - path_start_idx])
                     ELSE phi_buf[i]]
    /\ ret_buf' = [i \in 1..max_size |->
                     IF i \in path_slice
                     THEN slice_ret(last_val)[i - path_start_idx]
                     ELSE ret_buf[i]]
    /\ path_start_idx' = end_traj_start
    /\ UNCHANGED <<max_size, gamma, lam, ptr, obs_buf, act_buf, rew_buf, val_buf, logp_buf>>

\* np.mean of rationals
Mean(xs) == RDivInt(RSum(xs), Len(xs))

\* faulty variant of Variance: the squared deviations summed, not averaged
Variance_sum(xs) ==
    LET m == Mean(xs)
    IN  RSum([i \in 1..Len(xs) |-> RMul(RSub(xs[i], m), RSub(xs[i], m))])

\* np.std squared: the mean of the squared deviations
Variance(xs) ==
    LET m == Mean(xs)
    IN  Mean([i \in 1..Len(xs) |-> RMul(RSub(xs[i], m), RSub(xs[i], m))])

Sign(x) == IF x > 0 THEN 1 ELSE IF x < 0 THEN -1 ELSE 0

\* whether two advantage entries are the same real, where the model can
\* tell: {TRUE}, {FALSE}, or both when one of them is "fin"
SameReal(x, y) ==
    IF x.k = "fin" \/ y.k = "fin" THEN (IF x = y THEN {TRUE} ELSE {TRUE, FALSE})
    ELSE IF x.k = y.k THEN {x = y}
    ELSE LET n == IF x.k = "num" THEN x ELSE y
             s == IF x.k = "num" THEN y ELSE x
         IN  \* s.c / sqrt(s.v) = n.c  iff  same sign and s.c^2 = n.c^2 * s.v
             { /\ Sign(s.c[1]) = Sign(n.c[1])
               /\ RMul(s.c, s.c) = RMul(RMul(n.c, n.c), s.v) }

\* whether get's divisor, np.std(phi_buf), is 0: the code divides by it as
\* it is, with no floor
std_is_zero(var) == var = RInt(0)

\* [(x - mean) / std for x in phi_buf]: the lists get may produce.
\*  - a nan entry makes mean and std nan, hence every entry;
\*  - all entries computed by end_traj (or the initial zeros): exact; when
\*    std = 0 every x - mean is 0 and 0/0 is nan;
\*  - all entries left by the previous get: their mean is 0 and their std 1,
\*    the list is unchanged;
\*  - both kinds: std = 0 iff all entries are the same real; a non-constant
\*    list gives finite values, which the model does not evaluate ("fin").
Normalised(phi) ==
    LET n == Len(phi)
        idx == 1..n
        cs == [i \in idx |-> phi[i].c]
    IN  IF \E i \in idx : phi[i].k = "nan" THEN {[i \in idx |-> NaN]}
        ELSE IF \A i \in idx : phi[i].k = "num"
        THEN IF std_is_zero(Variance(cs))
             THEN {[i \in idx |-> NaN]}
             ELSE {[i \in idx |-> NormVal(RSub(cs[i], Mean(cs)), Variance(cs))]}
        ELSE IF \A i \in idx : phi[i].k # "num" THEN {phi}
        ELSE { IF zero THEN [i \in idx |-> NaN] ELSE [i \in idx |-> Fin] :
                 zero \in { b \in BOOLEAN :
                              IF b THEN \A i \in idx : TRUE \in SameReal(phi[1], phi[i])
                              ELSE \E i \in idx : FALSE \in SameReal(phi[1], phi[i]) } }

\* faulty variant of get_assert: any non-empty buffer will do
get_assert_nonempty == ptr > 0

\* get's assertion: the buffer is full
get_assert == ptr = max_size

\* VPGBuffer.get: reset both cursors, normalise the advantages over the whole
\* buffer, return the batch.  torch.as_tensor shares the memory of a float32
\* ndarray (obs, act, ret, logp: the tensor is a view of the buffer's array)
\* and copies a list (phi).
get ==
    /\ lastCall' = "get"
    /\ IF get_assert
       THEN /\ ptr' = 0
            /\ path_start_idx' = 0
            /\ \E out \in Normalised(phi_buf) :
                 /\ phi_buf' = out
                 /\ data' = [valid |-> TRUE, phi |-> out]
            /\ raised' = FALSE
            /\ stores_since_get' = 0
       ELSE /\ UNCHANGED <<ptr, path_start_idx, phi_buf, data, stores_since_get>>
            /\ raised' = TRUE
    /\ last_val_given' = 0
    /\ UNCHANGED <<max_size, gamma, lam, obs_buf, act_buf, rew_buf, val_buf, logp_buf, ret_buf>>

\* the batch as its holder reads it now
BatchView ==
    [obs |-> obs_buf, act |-> act_buf, ret |-> ret_buf,
     phi |-> data.phi, logp |-> logp_buf]

NoData == [valid |-> FALSE, phi |-> <<>>]

----------------------------------------------------------------------------
(* The networks and the environment, as far as the trainer uses them *)

\* the critic's estimate at an observation under parameters w
ValueNet(w, obs) == (w + obs) % 2

\* the policy's log-probability of an action at an observation
LogProb(p, obs, act) == -(1 + ((p + obs + act) % 2))

\* the action MLPActorCritic.step returns, given its two samples: the first
\* sample is the one whose log-probability is taken, the second is returned
step_act(first, second) == second

\* MLPActorCritic.step: every (action, value, log-probability) it may return
step(obs) ==
    { [a |-> step_act(first, second),
       v |-> ValueNet(v_params, obs),
       logp |-> LogProb(pi_params, obs, first),
       sampled |-> first] : first \in Acts, second \in Acts }

\* env.step: the next observation and the reward; termination is the
\* environment's choice
EnvNext(obs, act) == IF act = 1 THEN 3 - obs ELSE obs
EnvReward(obs, act) == act

\* env.reset()[0]
EnvReset == 1

NoStep == [a |-> 0, v |-> 0, logp |-> 0, sampled |-> 0, obs |-> 0]
NoBoot == [src |-> "none", val |-> 0, obs |-> 0]

TrainIdle ==
    /\ pc = "idle"
    /\ epoch = 0 /\ t = 0 /\ state = 0 /\ ep_ret = 0 /\ ep_len = 0
    /\ ep_returns = <<>>
    /\ terminal = FALSE /\ timeout = FALSE /\ epoch_ended = FALSE
    /\ last_step = NoStep /\ boot = NoBoot
    /\ pi_params = 0 /\ v_params = 0
    /\ env_terminated = FALSE /\ env_steps = 0
    /\ events = <<>>
    /\ pi_grad = <<>> /\ v_grad = <<>> /\ v_round = 0
    /\ evals = 0 /\ action = 0

----------------------------------------------------------------------------
(* The buffer under any sequence of calls *)

Init ==
    /\ \E size \in 1..MaxSize, gl \in GammaLams : BufferInit(size, gl[1], gl[2])
    /\ data = NoData
    /\ lastCall = "none"
    /\ raised = FALSE
    /\ stores_since_get = 0
    /\ last_val_given = 0
    /\ TrainIdle

StoreCall ==
    \E tr \in Transitions :
        /\ store(tr.obs, tr.act, tr.rew, tr.val, tr.logp)
        /\ UNCHANGED <<data, trainVars>>

EndTrajCall ==
    \E last_val \in Vals :
        /\ end_traj(last_val)
        /\ UNCHANGED <<data, trainVars>>

GetCall == get /\ UNCHANGED trainVars

Next == StoreCall \/ EndTrajCall \/ GetCall

Spec == Init /\ [][Next]_vars

----------------------------------------------------------------------------
(* Claims about VPGBuffer, checked under Spec *)

\* C1: in every state reached by store, end_traj and get calls, failed ones
\* included, 0 <= path_start_idx <= ptr <= max_size.
C1_CursorBounds ==
    /\ 0 <= path_start_idx
    /\ path_start_idx <= ptr
    /\ ptr <= max_size

\* a store has just failed on a full buffer whose last trajectory is open and
\* starts after a closed one
C1_Witness ==
    /\ lastCall = "store" /\ raised
    /\ 0 < path_start_idx /\ path_start_idx < ptr /\ ptr = max_size

\* the entries of a buffer array other than index i (1-based) are unchanged
SameExcept(old, new, i) ==
    /\ DOMAIN new = DOMAIN old
    /\ \A j \in DOMAIN old : j # i => new[j] = old[j]

\* C2: store on a full buffer raises and changes nothing; otherwise it writes
\* one transition at index ptr only, advances ptr by exactly 1 and leaves
\* path_start_idx and the advantage and return arrays unchanged.
C2_StoreEffect ==
    [][ lastCall' = "store" =>
          IF ptr = max_size
          THEN raised' /\ UNCHANGED bufVars
          ELSE /\ ~raised'
               /\ ptr' = ptr + 1
               /\ [obs |-> obs_buf'[ptr + 1], act |-> act_buf'[ptr + 1],
                   rew |-> rew_buf'[ptr + 1], val |-> val_buf'[ptr + 1],
                   logp |-> logp_buf'[ptr + 1]] \in Transitions
               /\ SameExcept(obs_buf, obs_buf', ptr + 1)
               /\ SameExcept(act_buf, act_buf', ptr + 1)
               /\ SameExcept(rew_buf, rew_buf', ptr + 1)
               /\ SameExcept(val_buf, val_buf', ptr + 1)
               /\ SameExcept(logp_buf, logp_buf', ptr + 1)
               /\ UNCHANGED <<path_start_idx, phi_buf, ret_buf, max_size, gamma, lam>>
      ]_vars

\* a store has failed on a buffer that was emptied by get and filled again
C2_Witness ==
    /\ lastCall = "store" /\ raised
    /\ data.valid /\ ptr = max_size /\ stores_since_get = max_size

\* C3: get raises and changes nothing whenever ptr # max_size; a successful
\* get resets ptr and path_start_idx to 0; every successful get comes after
\* exactly max_size successful stores since the previous successful get (or
\* since construction), so a second get with fewer stores in between fails.
C3_GetProtocol ==
    [][ lastCall' = "get" =>
          IF ptr # max_size
          THEN raised' /\ UNCHANGED <<bufVars, data, stores_since_get>>
          ELSE /\ ~raised'
               /\ ptr' = 0 /\ path_start_idx' = 0
               /\ stores_since_get = max_size
               /\ stores_since_get' = 0
      ]_vars

\* a get right after a successful get has failed
C3_Witness ==
    /\ lastCall = "get" /\ raised
    /\ data.valid /\ stores_since_get = 0 /\ ptr = 0

\* C4: end_traj leaves ptr unchanged, sets path_start_idx to ptr, writes the
\* advantage and return arrays only at the indices of the slice
\* [path_start_idx, ptr) and leaves the other five arrays unchanged.
C4_EndTrajFrame ==
    [][ lastCall' = "end_traj" =>
          /\ ptr' = ptr
          /\ path_start_idx' = ptr
          /\ \A i \in 1..max_size :
                (i <= path_start_idx \/ i > ptr) =>
                    phi_buf'[i] = phi_buf[i] /\ ret_buf'[i] = ret_buf[i]
          /\ DOMAIN phi_buf' = 1..max_size /\ DOMAIN ret_buf' = 1..max_size
          /\ UNCHANGED <<obs_buf, act_buf, rew_buf, val_buf, logp_buf>>
      ]_vars

\* end_traj has closed a non-empty slice that ends before an entry an
\* earlier get has normalised, and has given the slice a non-zero advantage
C4_Witness ==
    /\ lastCall = "end_traj"
    /\ path_start_idx = ptr /\ 0 < ptr /\ ptr < max_size
    /\ phi_buf[ptr].k = "num" /\ phi_buf[ptr].c # RInt(0)
    /\ phi_buf[max_size].k = "norm"

\* C5: the batch get returned is a snapshot: no later store or end_traj
\* changes any value of it.
C5_Snapshot ==
    [][ (data.valid /\ lastCall' \in {"store", "end_traj"}) =>
            BatchView' = BatchView ]_vars

\* C9: get never returns a non-finite advantage.
C9_FiniteAdvantages ==
    data.valid => \A i \in DOMAIN data.phi : data.phi[i].k # "nan"

----------------------------------------------------------------------------
(* Agent.train *)

\* faulty variant of bootstrap_obs: the observation the last action was taken from
bootstrap_obs_before == last_step.obs

\* line 322 queries step at state, which line 314 has set to next_state
bootstrap_obs == state

\* lines 321-324, the bootstrap value train passes to end_traj: when the
\* epoch ended, the value of one more call of step at the current
\* observation (its action and log-probability are dropped); 0 otherwise
bootstrap ==
    IF epoch_ended
    THEN { [src |-> "estimate", val |-> s.v, obs |-> bootstrap_obs] :
             s \in step(bootstrap_obs) }
    ELSE { [src |-> "zero", val |-> 0, obs |-> bootstrap_obs] }

TrainInit ==
    /\ BufferInit(steps_per_epoch, Rat(1, 2), Rat(1, 2))
    /\ data = NoData
    /\ lastCall = "none"
    /\ raised = FALSE
    /\ stores_since_get = 0
    /\ last_val_given = 0
    /\ pc = "step"
    /\ epoch = 0 /\ t = 0 /\ state = EnvReset /\ ep_ret = 0 /\ ep_len = 0
    /\ ep_returns = <<>>
    /\ terminal = FALSE /\ timeout = FALSE /\ epoch_ended = FALSE
    /\ last_step = NoStep /\ boot = NoBoot
    /\ pi_params = 0 /\ v_params = 0
    /\ env_terminated = FALSE /\ env_steps = 0
    /\ events = <<>>
    /\ pi_grad = <<>> /\ v_grad = <<>> /\ v_round = 0
    /\ evals = 0 /\ action = 0

\* lines 304-317: query the networks, step the environment, store the
\* transition, move to the next observation, compute the two flags
TrainStep ==
    /\ pc = "step"
    /\ \E s \in step(state), term \in BOOLEAN :
         /\ last_step' = [a |-> s.a, v |-> s.v, logp |-> s.logp,
                          sampled |-> s.sampled, obs |-> state]
         /\ terminal' = term
         /\ env_terminated' = term
         /\ env_steps' = env_steps + 1
         /\ ep_ret' = ep_ret + EnvReward(state, s.a)
         /\ ep_len' = ep_len + 1
         /\ store(state, s.a, EnvReward(state, s.a), s.v, s.logp)
         /\ state' = EnvNext(state, s.a)
    /\ events' = IF t = 0 THEN <<"store">> ELSE Append(events, "store")
    /\ timeout' = (ep_len' = max_ep_len)
    /\ epoch_ended' = (t = steps_per_epoch - 1)
    /\ pc' = IF raised' THEN "raised" ELSE "check"
    /\ UNCHANGED <<data, epoch, t, ep_returns, boot, pi_params, v_params,
                   pi_grad, v_grad, v_round, evals, action>>

\* faulty variant of AfterStep: the inner loop runs one step too many
AfterStepLate == IF t + 1 <= steps_per_epoch THEN "step" ELSE "get"

\* the inner loop's next iteration, or its end
AfterStep == IF t + 1 < steps_per_epoch THEN "step" ELSE "get"

\* faulty variant of logs_return: every closed trajectory is logged
logs_return_always == TRUE

\* line 325: the episode's return is logged when the episode ended
logs_return == timeout \/ terminal

\* faulty variant of closes: the end of the epoch does not close the trajectory
closes_without_epoch_end == terminal \/ timeout

\* faulty variant of closes: the episode-length limit does not close the trajectory
closes_without_timeout == terminal \/ epoch_ended

\* line 319: whether the trajectory ends after this step
closes == terminal \/ timeout \/ epoch_ended

\* lines 319-328, the trajectory ends: bootstrap, log the return, close the
\* slice, reset the environment
TrainCloseTraj ==
    /\ pc = "check"
    /\ closes
    /\ \E b \in bootstrap :
         /\ boot' = b
         /\ end_traj(b.val)
    /\ ep_returns' = IF logs_return THEN Append(ep_returns, ep_ret)
                     ELSE ep_returns
    /\ events' = Append(events, "end_traj")
    /\ state' = EnvReset
    /\ env_terminated' = FALSE
    /\ ep_ret' = 0
    /\ ep_len' = 0
    /\ t' = t + 1
    /\ pc' = AfterStep
    /\ UNCHANGED <<data, epoch, terminal, timeout, epoch_ended, last_step,
                   pi_params, v_params, env_steps,
                   pi_grad, v_grad, v_round, evals, action>>

\* line 319, the trajectory goes on
TrainContinue ==
    /\ pc = "check"
    /\ ~closes
    /\ t' = t + 1
    /\ pc' = AfterStep
    /\ UNCHANGED <<bufVars, data, callVars, epoch, state, ep_ret, ep_len,
                   ep_returns, terminal, timeout, epoch_ended, last_step, boot,
                   pi_params, v_params, env_terminated, env_steps, events,
                   pi_grad, v_grad, v_round, evals, action>>

\* faulty variant of AfterGet: the policy update left out
AfterGetSkipsPi == "v_update"

\* what train does with the batch
AfterGet == "pi_update"
AfterPiUpdate == "v_update"

\* lines 330-337: data = buf.get()
TrainGet ==
    /\ pc = "get"
    /\ get
    /\ events' = Append(events, "get")
    /\ pc' = IF raised' THEN "raised" ELSE AfterGet
    /\ UNCHANGED <<epoch, t, state, ep_ret, ep_len, ep_returns, terminal, timeout,
                   epoch_ended, last_step, boot, pi_params, v_params,
                   env_terminated, env_steps,
                   pi_grad, v_grad, v_round, evals, action>>

\* Agent.pi_update, lines 229-238: clear the accumulator, add the gradient of
\* the loss at the current parameters, take one optimizer step
pi_update ==
    /\ pi_grad' = <<pi_params>>
    /\ pi_params' = pi_params + 1

\* line 257: the critic's accumulator is cleared on entry to v_update, before
\* the loop, and in no later round
v_zero_grad == IF v_round = 0 THEN <<>> ELSE v_grad

\* lines 259-263, one round of v_update's loop: loss.backward() adds the
\* gradient of the loss at the current parameters to the accumulator, then
\* v_optimizer.step() moves the parameters along the accumulator
v_update_round ==
    /\ v_grad' = Append(v_zero_grad, v_params)
    /\ v_params' = v_params + 1
    /\ v_round' = v_round + 1

\* line 339
TrainPiUpdate ==
    /\ pc = "pi_update"
    /\ pi_update
    /\ events' = Append(events, "pi_update")
    /\ pc' = AfterPiUpdate
    /\ UNCHANGED <<bufVars, data, callVars, epoch, t, state, ep_ret, ep_len,
                   ep_returns, terminal, timeout, epoch_ended, last_step, boot,
                   v_params, env_terminated, env_steps,
                   v_grad, v_round, evals, action>>

\* line 340, inside v_update: one round of its loop (line 258)
TrainVRound ==
    /\ pc = "v_update"
    /\ v_round < v_rounds
    /\ v_update_round
    /\ UNCHANGED <<bufVars, data, callVars, pc, epoch, t, state, ep_ret, ep_len,
                   ep_returns, terminal, timeout, epoch_ended, last_step, boot,
                   pi_params, env_terminated, env_steps, events,
                   pi_grad, evals, action>>

\* line 264, v_update returns; then the next epoch (lines 301-302) or
\* return True (line 342).  The local data is not read again: the next
\* epoch's get rebinds it.
TrainVUpdate ==
    /\ pc = "v_update"
    /\ v_round = v_rounds
    /\ v_round' = 0
    /\ data' = NoData
    /\ events' = Append(events, "v_update")
    /\ epoch' = epoch + 1
    /\ t' = 0
    /\ ep_returns' = IF epoch + 1 < epochs THEN <<>> ELSE ep_returns
    /\ pc' = IF epoch + 1 < epochs THEN "step" ELSE "done"
    /\ UNCHANGED <<bufVars, callVars, state, ep_ret, ep_len,
                   terminal, timeout, epoch_ended, last_step, boot,
                   pi_params, v_params, env_terminated, env_steps,
                   pi_grad, v_grad, evals, action>>

\* faulty variant of get_action: the call also takes a policy gradient step
get_action_learns(obs) ==
    /\ \E s \in step(obs) : action' = s.a
    /\ pi_grad' = <<pi_params>>
    /\ pi_params' = pi_params + 1
    /\ UNCHANGED <<bufVars, data, callVars, v_params, v_grad>>

\* Agent.get_action, line 355: the action of one call of step.  step runs
\* under torch.no_grad() (line 111) and assigns no field of the networks, the
\* optimizers or the buffer.
get_action(obs) ==
    /\ \E s \in step(obs) : action' = s.a
    /\ UNCHANGED <<bufVars, data, callVars, pi_params, v_params, pi_grad, v_grad>>

\* the evaluation that follows training calls get_action
GetActionCall ==
    /\ pc = "done"
    /\ evals < MaxEvals
    /\ \E obs \in Obs : get_action(obs)
    /\ evals' = evals + 1
    /\ UNCHANGED <<pc, epoch, t, state, ep_ret, ep_len, ep_returns,
                   terminal, timeout, epoch_ended, last_step, boot,
                   env_terminated, env_steps, events, v_round>>

TrainNext ==
    \/ TrainStep
    \/ TrainCloseTraj
    \/ TrainContinue
    \/ TrainGet
    \/ TrainPiUpdate
    \/ TrainVRound
    \/ TrainVUpdate
    \/ GetActionCall

TrainSpec == TrainInit /\ [][TrainNext]_vars

\* where TrainNext can take a step: train has neither returned nor raised, or
\* the evaluation has calls left
Running ==
    \/ pc \in {"step", "check", "get", "pi_update", "v_update"}
    \/ pc = "done" /\ evals < MaxEvals

\* the interpreter keeps executing, a statement that can run does run: weak
\* fairness of TrainNext, with ENABLED <<TrainNext>>_vars written out as Running
TrainLive == TrainSpec /\ ([]<>(~Running) \/ []<><<TrainNext>>_vars)

----------------------------------------------------------------------------
(* Claims about Agent.train, checked under TrainSpec.  Between the end_traj *)
(* of TrainCloseTraj and the next buffer call, lastCall = "end_traj" and    *)
(* terminal, timeout, epoch_ended and boot are those of that closure.       *)

\* C6: a trajectory closed by the episode-length limit, without termination
\* and before the last step of the epoch, is closed with the critic's
\* estimate at the current observation as bootstrap value, not with 0.
C6_TimeoutBootstraps ==
    (lastCall = "end_traj" /\ timeout /\ ~terminal /\ ~epoch_ended) =>
        boot.src = "estimate" /\ boot.val = ValueNet(v_params, boot.obs)

\* C7: whenever the environment reported termination, the trajectory is
\* closed with bootstrap value 0, the last step of the epoch included.
C7_TerminalBootstrapZero ==
    (lastCall = "end_traj" /\ terminal) => boot.src = "zero" /\ boot.val = 0

\* C8: the log-probability step returns, and train stores, is that of the
\* action step returns, which train executes and stores.
C8_LogpOfReturnedAction ==
    pc = "check" =>
        /\ last_step.logp = LogProb(pi_params, last_step.obs, last_step.a)
        /\ logp_buf[ptr] = LogProb(pi_params, obs_buf[ptr], act_buf[ptr])

\* C10: in every epoch get follows the epoch's last store and end_traj, one
\* policy update follows get, the value update follows the policy update,
\* and no store or end_traj comes between get and the end of the value
\* update; a finished epoch has had exactly one of each.
C10_EpochOrder ==
    LET n == Len(events)
        Count(e) == Cardinality({i \in 1..n : events[i] = e})
    IN  /\ Count("get") <= 1 /\ Count("pi_update") <= 1 /\ Count("v_update") <= 1
        /\ \A i \in 1..n :
              /\ events[i] = "get" =>
                    /\ i > 2 /\ events[i - 2] = "store" /\ events[i - 1] = "end_traj"
                    /\ \A j \in (i + 1)..n : events[j] \notin {"store", "end_traj"}
              /\ events[i] = "pi_update" => i > 1 /\ events[i - 1] = "get"
              /\ events[i] = "v_update" =>
                    i = n /\ i > 1 /\ events[i - 1] = "pi_update"
        /\ pc = "pi_update" => n > 0 /\ events[n] = "get"
        /\ pc = "v_update" => n > 0 /\ events[n] = "pi_update"
        /\ (pc = "done" \/ (pc = "step" /\ t = 0 /\ epoch > 0)) =>
              n > 0 /\ events[n] = "v_update"
        /\ pc \in {"step", "check", "get"} /\ ~(pc = "step" /\ t = 0) =>
              Count("get") = 0

\* train has returned after a last epoch in which every step closed its
\* trajectory
C10_Witness ==
    /\ pc = "done" /\ epoch = epochs
    /\ Len(events) = 2 * steps_per_epoch + 3
    /\ events[Len(events)] = "v_update"


\* C11: train appends the episode's return to ep_returns exactly when the
\* trajectory closes with termination reported or the episode length equal
\* to max_ep_len; a closure by the epoch's last step alone, and a step that
\* closes nothing, leave the log as it is; each epoch starts with an empty
\* log.
C11_ReturnLog ==
    [][ /\ pc = "check" =>
            IF (terminal \/ ep_len = max_ep_len) /\ lastCall' = "end_traj"
            THEN ep_returns' = Append(ep_returns, ep_ret)
            ELSE ep_returns' = ep_returns
        /\ pc # "check" => (ep_returns' = ep_returns \/ ep_returns' = <<>>)
        /\ (pc' = "step" /\ t' = 0) => ep_returns' = <<>>
      ]_vars

\* the epoch's last step has closed a trajectory that neither terminated nor
\* timed out, and the log, holding an earlier episode's return, has not grown
C11_Witness ==
    /\ lastCall = "end_traj" /\ epoch_ended /\ ~terminal /\ ~timeout
    /\ Len(ep_returns) = 1 /\ ep_returns[1] > 0


----------------------------------------------------------------------------
(* Claims about the numbers end_traj and get compute, checked under Spec *)

RECURSIVE RPow(_, _)
RPow(q, n) == IF n = 0 THEN RInt(1) ELSE RMul(q, RPow(q, n - 1))

\* sum over k in first..last of q^(k - first) * x[k]
DiscountedSum(x, first, last, q) ==
    RSum([j \in 1..(last - first + 1) |-> RMul(RPow(q, j - 1), x[first + j - 1])])

\* C12: after end_traj the return-to-go at each index i of the closed slice
\* is the sum over the slice's indices k >= i of gamma^(k-i) * reward[k]: the
\* rewards of that slice only, whatever last_val was (for gamma = 1 and a
\* constant reward r over n steps, r * (n - i)).
C12_ReturnToGo ==
    [][ lastCall' = "end_traj" =>
          \A i \in (path_start_idx + 1)..ptr :
              ret_buf'[i] =
                  DiscountedSum([k \in 1..max_size |-> RInt(rew_buf[k])], i, ptr, gamma)
      ]_vars

\* end_traj has closed the second trajectory of a full buffer of two
\* transitions of reward 1 each: its return is 1, not 1 + gamma * 1 nor
\* anything last_val adds
C12_Witness ==
    /\ lastCall = "end_traj" /\ max_size = 2 /\ path_start_idx = 2
    /\ rew_buf = <<1, 1>> /\ val_buf = <<0, 1>>
    /\ ret_buf = <<RInt(1), RInt(1)>>
    /\ phi_buf[2].k = "num" /\ phi_buf[2].c # RInt(0)


\* the TD residual at index k of the slice that ends at index last, with
\* the value after the slice's last transition being last_val
Residual(k, last, last_val) ==
    RSub(RAdd(RInt(rew_buf[k]),
              RMul(gamma, RInt(IF k = last THEN last_val ELSE val_buf[k + 1]))),
         RInt(val_buf[k]))

\* C13: after end_traj(last_val) the advantage at each index i of the closed
\* slice is the sum over the slice's indices k >= i of
\* (gamma*lam)^(k-i) * delta[k], delta[k] = r[k] + gamma * v[k+1] - v[k] with
\* last_val after the slice's last value; when the slice's rewards and values
\* are all 0 it is (gamma*lam)^(n-1-i) * gamma * last_val.
C13_Advantage ==
    [][ lastCall' = "end_traj" =>
          \A i \in (path_start_idx + 1)..ptr :
              /\ phi_buf'[i] =
                    Num(DiscountedSum([k \in 1..ptr |-> Residual(k, ptr, last_val_given')],
                                      i, ptr, RMul(gamma, lam)))
              /\ (\A k \in (path_start_idx + 1)..ptr : rew_buf[k] = 0 /\ val_buf[k] = 0) =>
                    phi_buf'[i] =
                        Num(RMul(RPow(RMul(gamma, lam), ptr - i),
                                 RMul(gamma, RInt(last_val_given'))))
      ]_vars

\* end_traj(1) has closed a slice of two transitions with rewards and values
\* 0 under gamma = lam = 1/2: the advantages are 1/4 * 1/2 and 1/2
C13_Witness ==
    /\ lastCall = "end_traj" /\ last_val_given = 1
    /\ gamma = Rat(1, 2) /\ lam = Rat(1, 2)
    /\ max_size = 2 /\ path_start_idx = 2
    /\ rew_buf = <<0, 0>> /\ val_buf = <<0, 0>>
    /\ phi_buf = <<Num(Rat(1, 8)), Num(Rat(1, 2))>>

----------------------------------------------------------------------------
(* Claims about Agent.get_action and Agent.v_update, checked under TrainSpec *)

\* C14: a call of get_action changes neither the policy's nor the critic's
\* parameters (whose versions count the optimizers' steps), nor the
\* accumulated gradients, nor the buffer's contents and cursors.
C14_GetActionFrame ==
    [][ evals' # evals =>
            UNCHANGED <<pi_params, v_params, pi_grad, v_grad, bufVars>> ]_vars

\* two calls of get_action have been made after a training that took updates
C14_Witness ==
    /\ pc = "done" /\ evals = 2 /\ action = 1
    /\ pi_params > 0 /\ v_params > 0 /\ v_grad # <<>> /\ obs_buf[max_size] # 0

\* C20: in v_update the gradient each round's optimizer step applies is the
\* gradient of the loss at the parameters that round started from, and
\* nothing else: no earlier round's gradient is summed into it.
C20_FreshGradient ==
    (pc = "v_update" /\ v_round > 0) => v_grad = <<v_params - 1>>

----------------------------------------------------------------------------
(* Claim about the length of Agent.train, checked under TrainLive *)

\* what train has done so far, by its position: nothing raised, one
\* environment step per iteration of the inner loop, one policy update and
\* v_rounds critic steps per finished epoch, one get in the epoch's log from
\* get on
TrainCounts ==
    LET Count(e) == Cardinality({i \in 1..Len(events) : events[i] = e})
        updating == pc \in {"pi_update", "v_update"}
        epoch_over == pc = "done" \/ (pc = "step" /\ t = 0 /\ epoch > 0)
    IN  /\ pc # "raised"
        /\ env_steps = epoch * steps_per_epoch + t + (IF pc = "check" THEN 1 ELSE 0)
        /\ pc = "done" => epoch = epochs /\ env_steps = epochs * steps_per_epoch
        /\ pi_params = epoch + (IF pc = "v_update" THEN 1 ELSE 0)
        /\ v_params = epoch * v_rounds + v_round
        /\ Count("get") = (IF updating \/ epoch_over THEN 1 ELSE 0)
        /\ epoch_over => Count("pi_update") = 1 /\ Count("v_update") = 1

\* C15: whatever termination flags the environment returns, train reaches
\* return True, raises nothing, has then stepped the environment exactly
\* epochs * steps_per_epoch times, and makes exactly one get, one policy
\* update and one value update in each epoch (TrainCounts holds initially
\* and after every step).
C15_TrainTerminates ==
    /\ <>(pc = "done")
    /\ TrainCounts
    /\ [][TrainCounts']_vars

\* train has returned after epochs in which the environment terminated an
\* episode and in which it let one run to the limits
C15_Witness ==
    /\ pc = "done" /\ env_steps = epochs * steps_per_epoch
    /\ Len(ep_returns) = 2 /\ terminal /\ ~timeout

----------------------------------------------------------------------------
(* Claim about the batch get returns to Agent.train, checked under TrainSpec *)

\* C16: when get succeeds on a buffer whose advantages are not all the same,
\* the advantages it returns are max_size values c[i] / sqrt(v) with one v,
\* of mean 0 (the c[i] sum to 0) and standard deviation 1 (the squares of the
\* c[i] sum to max_size * v).
C16_Standardised ==
    [][ ( /\ lastCall' = "get" /\ ~raised'
          /\ \A i \in 1..max_size : phi_buf[i].k = "num"
          /\ \E i, j \in 1..max_size : phi_buf[i] # phi_buf[j] ) =>
            LET out == data'.phi
                cs == [i \in 1..max_size |-> out[i].c]
            IN  /\ data'.valid /\ Len(out) = max_size
                /\ \A i \in 1..max_size : out[i].k = "norm" /\ out[i].v = out[1].v
                /\ out[1].v # RInt(0)
                /\ RSum(cs) = RInt(0)
                /\ RSum([i \in 1..max_size |-> RMul(cs[i], cs[i])])
                      = RMul(RInt(max_size), out[1].v)
      ]_vars

\* get has just returned three different normalised advantages
C16_Witness ==
    /\ lastCall = "get" /\ data.valid
    /\ \A i \in 1..max_size : data.phi[i].k = "norm"
    /\ data.phi[1] # data.phi[2] /\ data.phi[2] # data.phi[3] /\ data.phi[1] # data.phi[3]

----------------------------------------------------------------------------
(* Claims about how Agent.train drives the buffer and the environment,     *)
(* checked under TrainSpec.  A step of train makes the call e when it adds *)
(* e to the epoch's log.                                                    *)

Calls(e) == events' # events /\ events'[Len(events')] = e

\* C17: train stores only into a buffer with room, closes only non-empty
\* slices, calls get only on a full buffer whose last slice is closed, so
\* that every transition of the batch lies in a closed trajectory, and no
\* buffer call of train raises.
C17_BufferProtocol ==
    [][ /\ Calls("store") => ptr < max_size /\ ptr' = ptr + 1
        /\ Calls("end_traj") => path_start_idx < ptr /\ path_start_idx' = ptr
        /\ Calls("get") =>
              /\ ptr = max_size /\ path_start_idx = max_size
              /\ \A i \in 1..max_size : phi_buf[i].k = "num"
        /\ ~raised' /\ pc' # "raised"
      ]_vars

\* get has been called on a buffer filled by three one-step trajectories
C17_Witness ==
    /\ lastCall = "get" /\ ~raised /\ pc = "pi_update" /\ epoch = 1
    /\ events = <<"store", "end_traj", "store", "end_traj", "store", "end_traj", "get">>

\* C18: after an environment step the trajectory is closed exactly when the
\* step terminated the episode, or the episode has max_ep_len steps, or the
\* step is the epoch's last; closing calls end_traj, resets the environment
\* and sets ep_ret and ep_len to 0; a closed trajectory has between 1 and
\* max_ep_len transitions; the environment is not stepped after a
\* termination without a reset in between.
C18_Closure ==
    [][ /\ pc = "check" =>
              /\ Calls("end_traj") <=>
                    (terminal \/ ep_len = max_ep_len \/ t = steps_per_epoch - 1)
              /\ Calls("end_traj") =>
                    /\ state' = EnvReset /\ ~env_terminated'
                    /\ ep_ret' = 0 /\ ep_len' = 0
                    /\ ptr - path_start_idx = ep_len
                    /\ 1 <= ep_len /\ ep_len <= max_ep_len
              /\ ~Calls("end_traj") => UNCHANGED <<state, ep_ret, ep_len, bufVars>>
        /\ env_steps' # env_steps => ~env_terminated
      ]_vars

\* in the second epoch a trajectory of max_ep_len steps has been closed by
\* the limit alone
C18_Witness ==
    /\ lastCall = "end_traj" /\ timeout /\ ~terminal /\ ~epoch_ended
    /\ ep_len = 0 /\ ep_returns # <<>> /\ path_start_idx = max_ep_len /\ epoch = 1
    /\ events = <<"store", "store", "end_traj">>

\* C19: the bootstrap value of the trajectory the end of the epoch closes is
\* the critic's estimate at the observation the last environment step
\* returned, not at the one its action was taken from; the query that yields
\* it stores no transition and steps the environment zero times.
C19_BoundaryBootstrap ==
    [][ (Calls("end_traj") /\ epoch_ended) =>
            LET next_state == EnvNext(last_step.obs, last_step.a)
            IN  /\ boot'.src = "estimate"
                /\ boot'.obs = next_state
                /\ boot'.val = ValueNet(v_params, next_state)
                /\ last_val_given' = boot'.val
                /\ env_steps' = env_steps
                /\ stores_since_get' = stores_since_get
                /\ UNCHANGED <<ptr, obs_buf, act_buf, rew_buf, val_buf, logp_buf>>
      ]_vars

\* the epoch's last step changed the observation, and the critic's values at
\* the old and the new observation differ
C19_Witness ==
    /\ lastCall = "end_traj" /\ epoch_ended /\ ptr = max_size
    /\ boot.obs # last_step.obs
    /\ boot.val = 1 /\ ValueNet(v_params, last_step.obs) = 0

====
